---- MODULE Spec2Model ----
(***************************************************************************)
(* A model of jax/_src/tree_util.py: the registry handlers of the built-in *)
(* and pre-registered node types, the flatten / unflatten engine behind    *)
(* tree_flatten, tree_unflatten and tree_map, the key-path generator and   *)
(* the structural equality diagnostics.                                    *)
(*                                                                         *)
(* A pytree is a record [k, v, ks, c]:                                     *)
(*   k   the runtime type: "leaf" (an opaque value of unregistered type),  *)
(*       "none", "list", "tuple", "dict", "odict" (OrderedDict), "ddict"   *)
(*       (defaultdict), "ntuple" (a namedtuple class), "partial" (Partial),*)
(*       "app" (the opaque value returned by the mapped function f);      *)
(*   v   the leaf's value, the defaultdict's default_factory, or the       *)
(*       Partial's func; 0 where the type has none;                        *)
(*   ks  the keys of a mapping in INSERTION order;                         *)
(*   c   the elements of a sequence, the values of a mapping in insertion  *)
(*       order (c[i] is stored under ks[i]), the fields of a namedtuple,   *)
(*       <<args, keywords>> of a Partial, the arguments of an "app".       *)
(* A treedef is a record of the same shape: k = "*" for a leaf, otherwise  *)
(* the node type, <<v, ks>> the node metadata, c the child treedefs.       *)
(***************************************************************************)
EXTENDS Integers, Sequences, FiniteSets, TLC

VARIABLES tree, rest, is_leaf, op, out,
          default_registry, none_leaf_registry, dispatch_registry,
          _registry, _registry_with_keypaths,
          data_fields, meta_fields, entry_fields

\* The tables of the registered types: for each type the entry registered
\* for it, named after the registration it comes from, or NoEntry.
registries ==
  <<default_registry, none_leaf_registry, dispatch_registry,
    _registry, _registry_with_keypaths>>

\* The field lists of the caller of register_dataclass, and for each type
\* the field names its register_dataclass entries hold.
dataclass == <<data_fields, meta_fields, entry_fields>>

vars == <<tree, rest, is_leaf, op, out, registries, dataclass>>

\* The bound of the explored inputs: the nodes of a pytree.
MaxNodes == 3

-----------------------------------------------------------------------------
\* Values

Mk(kind, val, keys, kids) == [k |-> kind, v |-> val, ks |-> keys, c |-> kids]

LeafOf(x) == Mk("leaf", x, <<>>, <<>>)
NoneTree == Mk("none", 0, <<>>, <<>>)
LeafDef == Mk("*", 0, <<>>, <<>>)

\* The fields of the one namedtuple class of the model (its _fields).
NTFields == <<"x", "y">>

SeqKinds == {"list", "tuple"}
MapKinds == {"dict", "odict", "ddict"}

Range(s) == {s[i] : i \in 1..Len(s)}

RECURSIVE SortSet(_)
SortSet(S) ==
  IF S = {} THEN <<>>
  ELSE LET m == CHOOSE x \in S : \A y \in S : x <= y
       IN <<m>> \o SortSet(S \ {m})

\* sorted(keys) for distinct, mutually comparable keys.
sorted(keys) == SortSet(Range(keys))

IndexOf(s, x) == CHOOSE i \in 1..Len(s) : s[i] = x

\* d[key] for a mapping d.
GetItem(d, key) == d.c[IndexOf(d.ks, key)]

\* zip(a, b): as long as the shorter of the two.
Zip2(a, b) ==
  LET n == IF Len(a) < Len(b) THEN Len(a) ELSE Len(b)
  IN [i \in 1..n |-> <<a[i], b[i]>>]

-----------------------------------------------------------------------------
\* The registry: one-level decomposition and recomposition per node type.

\* The result of a to_iter / flatten_func call: (children, aux_data), with
\* the aux_data held as the pair of fields (v, ks).
OneLevel(kids, val, keys) == [children |-> kids, v |-> val, ks |-> keys]

\* _registry[tuple].to_iter and _registry[list].to_iter: (xs, None)
seq_to_iter(xs) == OneLevel(xs.c, 0, <<>>)

\* dict_to_iter without the sort: the items in insertion order.
dict_to_iter_unsorted(xs) == OneLevel(xs.c, 0, xs.ks)

\* _registry[dict].to_iter: unzip2(sorted(xs.items()))[::-1]
dict_to_iter(xs) ==
  LET keys == sorted(xs.ks)
  IN OneLevel([i \in 1..Len(keys) |-> GetItem(xs, keys[i])], 0, keys)

\* _registry[type(None)].to_iter: ((), None)
none_to_iter(z) == OneLevel(<<>>, 0, <<>>)

\* The flatten_func registered for OrderedDict:
\* (tuple(x.values()), tuple(x.keys()))
odict_to_iter(x) == OneLevel(x.c, 0, x.ks)

\* _flatten_defaultdict with the values taken in insertion order,
\* tuple(d.values()), next to the sorted keys.
_flatten_defaultdict_values(d) == OneLevel(d.c, d.v, sorted(d.ks))

\* The flatten_func registered for defaultdict.
_flatten_defaultdict(d) ==
  LET keys == sorted(d.ks)
  IN OneLevel([i \in 1..Len(keys) |-> GetItem(d, keys[i])], d.v, keys)

\* The flatten_func registered for Partial:
\* ((partial_.args, partial_.keywords), partial_.func)
partial_to_iter(partial_) == OneLevel(partial_.c, partial_.v, <<>>)

\* A namedtuple decomposes into its elements; its node data is its class
\* (flat[1] == type(tree) in _generate_key_paths_), held in the node type.
ntuple_to_iter(xs) == OneLevel(xs.c, 0, <<>>)

\* The types the engine handles itself, the types tree_util registers when
\* it is loaded, and the classes of the caller.
BuiltinTypes == {"tuple", "list", "dict", "none", "ntuple"}
PreRegisteredTypes == {"odict", "ddict", "partial"}
UserTypes == {"A", "B"}
AllTypes == BuiltinTypes \cup PreRegisteredTypes \cup UserTypes

NoEntry == "-"

\* The field names of a type without register_dataclass entries.
NoFields == [data_fields |-> <<>>, meta_fields |-> <<>>]

\* The tables once the module is loaded: None is a leaf of
\* none_leaf_registry, namedtuples have no entry in the Python-side tables,
\* and key handlers are registered for tuple, list, dict, defaultdict and
\* OrderedDict.
InitRegistries ==
  LET loaded(T) == [t \in AllTypes |->
                      IF t \in BuiltinTypes \cap T THEN "builtin"
                      ELSE IF t \in PreRegisteredTypes \cap T
                        THEN "register_pytree_node"
                      ELSE NoEntry]
      every == BuiltinTypes \cup PreRegisteredTypes
  IN /\ default_registry = loaded(every)
     /\ none_leaf_registry = loaded(every \ {"none"})
     /\ dispatch_registry = loaded(every)
     /\ _registry = loaded(every \ {"ntuple"})
     /\ _registry_with_keypaths =
          [t \in AllTypes |->
             IF t \in {"tuple", "list", "dict", "ddict", "odict"}
             THEN "_register_keypaths" ELSE NoEntry]
     /\ entry_fields = [t \in AllTypes |-> NoFields]

\* The registration functions, and the values of op a call can follow: no
\* call yet, or a registration.
RegistrationOps ==
  {"register_pytree_node", "register_pytree_node_class",
   "register_pytree_with_keys", "register_pytree_with_keys_class",
   "register_dataclass", "register_static"}
Ready == {"start"} \cup RegistrationOps

\* The types with an entry in default_registry.
RegisteredTypes == {t \in AllTypes : default_registry[t] # NoEntry}

\* The field names the entries of nodetype would use if register_dataclass
\* closed over the lists of its caller: the lists as they are now.
fields_of_caller(nodetype) ==
  [data_fields |-> data_fields, meta_fields |-> meta_fields]

\* The field names the functions of the register_dataclass entries of
\* nodetype close over: the tuples made of the lists when it was registered.
fields_of(nodetype) == entry_fields[nodetype]

\* getattr(x, name): the attributes of an object are held like the items
\* of a mapping, the names in ks and the values in c.
getattr(x, name) == GetItem(x, name)

\* The flatten_func of register_dataclass for the field names an entry
\* holds: (data, meta), the values of the data fields and of the meta
\* fields in the order of the names.
flatten_func(fields, x) ==
  OneLevel([i \in 1..Len(fields.data_fields) |->
              getattr(x, fields.data_fields[i])],
           [i \in 1..Len(fields.meta_fields) |->
              getattr(x, fields.meta_fields[i])],
           <<>>)

\* dict(items) of a sequence of (key, value) pairs: a key stands where it
\* comes first and has the value that comes last.
RECURSIVE dict(_)
dict(items) ==
  IF items = <<>> THEN Mk("dict", 0, <<>>, <<>>)
  ELSE LET n == Len(items)
           d == dict(SubSeq(items, 1, n - 1))
       IN IF items[n][1] \in Range(d.ks)
          THEN [d EXCEPT !.c[IndexOf(d.ks, items[n][1])] = items[n][2]]
          ELSE Mk("dict", 0, Append(d.ks, items[n][1]),
                  Append(d.c, items[n][2]))

\* The unflatten_func of register_dataclass: nodetype(**kwargs), an object
\* with the attributes of kwargs.
unflatten_func(fields, nodetype, meta, data) ==
  LET meta_args == Zip2(fields.meta_fields, meta)
      data_args == Zip2(fields.data_fields, data)
      kwargs == dict(meta_args \o data_args)
  IN Mk(nodetype, 0, kwargs.ks, kwargs.c)

\* A flatten function whose register_static entry gives the object's
\* elements as children, next to the object as node data.
user_to_iter_elements(entry, obj) ==
  CASE entry = "register_static" -> OneLevel(obj.c, obj, <<>>)
    [] entry = "register_dataclass" -> flatten_func(fields_of(obj.k), obj)
    [] OTHER -> OneLevel(obj.c, obj.v, <<>>)

\* The flatten function of the entry registered for a class of the caller:
\* register_static's gives no children and the object as node data; the
\* caller's own gives the object's elements and its data.
user_to_iter(entry, obj) ==
  CASE entry = "register_static" -> OneLevel(<<>>, obj, <<>>)
    [] entry = "register_dataclass" -> flatten_func(fields_of(obj.k), obj)
    [] OTHER -> OneLevel(obj.c, obj.v, <<>>)

\* Its unflatten function.
user_from_iter(entry, node, xs) ==
  CASE entry = "register_static" -> node.v
    [] entry = "register_dataclass" ->
         unflatten_func(fields_of(node.k), node.k, node.v, xs)
    [] OTHER -> Mk(node.k, node.v, <<>>, xs)

\* The to_iter of the entry registered for type(x).
to_iter(x) ==
  CASE x.k \in SeqKinds -> seq_to_iter(x)
    [] x.k = "dict"     -> dict_to_iter(x)
    [] x.k = "none"     -> none_to_iter(x)
    [] x.k = "odict"    -> odict_to_iter(x)
    [] x.k = "ddict"    -> _flatten_defaultdict(x)
    [] x.k = "partial"  -> partial_to_iter(x)
    [] x.k = "ntuple"   -> ntuple_to_iter(x)
    [] x.k \in UserTypes -> user_to_iter(default_registry[x.k], x)

\* _registry[tuple].from_iter, _registry[list].from_iter: tuple(xs), list(xs)
seq_from_iter(kind, xs) == Mk(kind, 0, <<>>, xs)

\* _registry[dict].from_iter: dict(zip(keys, xs))
dict_from_iter(keys, xs) == Mk("dict", 0, keys, xs)

\* The unflatten_func registered for OrderedDict:
\* OrderedDict(safe_zip(keys, values))
odict_from_iter(keys, values) == Mk("odict", 0, keys, values)

\* The unflatten_func registered for defaultdict:
\* defaultdict(s[0], safe_zip(s[1], values))
ddict_from_iter(s0, s1, values) == Mk("ddict", s0, s1, values)

\* The unflatten_func registered for Partial: Partial(func, *xs[0], **xs[1])
partial_from_iter(func, xs) ==
  Mk("partial", func, <<>>,
     << Mk("tuple", 0, <<>>, xs[1].c), Mk("dict", 0, xs[2].ks, xs[2].c) >>)

\* The from_iter of the entry registered for the node type of a treedef
\* node, applied to its node data and the rebuilt children.
from_iter(node, xs) ==
  CASE node.k \in SeqKinds -> seq_from_iter(node.k, xs)
    [] node.k = "dict"     -> dict_from_iter(node.ks, xs)
    [] node.k = "none"     -> NoneTree
    [] node.k = "odict"    -> odict_from_iter(node.ks, xs)
    [] node.k = "ddict"    -> ddict_from_iter(node.v, node.ks, xs)
    [] node.k = "partial"  -> partial_from_iter(node.v, xs)
    [] node.k = "ntuple"   -> Mk("ntuple", 0, <<>>, xs)
    [] node.k \in UserTypes ->
         user_from_iter(default_registry[node.k], node, xs)

-----------------------------------------------------------------------------
\* The is_leaf predicates of the model: "absent" is is_leaf=None, a type
\* name T is the predicate lambda x: type(x) is T, and "list with 0" is the
\* predicate lambda x: type(x) is list and 0 in x, which tells lists by
\* what they hold.

Preds == {"absent", "list", "none", "list with 0"}

\* The type T occurs in x.
RECURSIVE Occurs(_, _)
Occurs(T, x) == x.k = T \/ \E i \in 1..Len(x.c) : Occurs(T, x.c[i])

IsLeafCall(pred, x) ==
  CASE pred = "absent" -> FALSE
    [] pred = "list with 0" ->
         x.k = "list" /\ \E i \in 1..Len(x.c) : x.c[i] = LeafOf(0)
    [] OTHER -> x.k = pred

\* is_leaf is true of x or of a pytree inside x.
RECURSIVE Accepts(_, _)
Accepts(pred, x) ==
  IsLeafCall(pred, x) \/ \E i \in 1..Len(x.c) : Accepts(pred, x.c[i])

\* The predicates that can tell on the pytrees xs: is_leaf=None, and the
\* predicates true of something in one of them.
PredsFor(xs) ==
  {pred \in Preds :
     pred = "absent" \/ \E i \in 1..Len(xs) : Accepts(pred, xs[i])}

-----------------------------------------------------------------------------
\* The engine of the registries (PyTreeRegistry.flatten, PyTreeDef.unflatten,
\* PyTreeDef.flatten_up_to, num_leaves, num_nodes).

RECURSIVE ConcatAll(_)
ConcatAll(ss) == IF ss = <<>> THEN <<>> ELSE Head(ss) \o ConcatAll(Tail(ss))

RECURSIVE RegistryFlatten(_, _)
RegistryFlatten(x, pred) ==
  IF IsLeafCall(pred, x) \/ x.k \notin RegisteredTypes
  THEN [leaves |-> <<x>>, treedef |-> LeafDef]
  ELSE LET one == to_iter(x)
           sub == [i \in 1..Len(one.children) |->
                     RegistryFlatten(one.children[i], pred)]
       IN [leaves  |-> ConcatAll([i \in 1..Len(sub) |-> sub[i].leaves]),
           treedef |-> Mk(x.k, one.v, one.ks,
                          [i \in 1..Len(sub) |-> sub[i].treedef])]

RECURSIVE num_leaves(_)
num_leaves(td) ==
  IF td.k = "*" THEN 1
  ELSE LET n == Len(td.c)
           RECURSIVE Sum(_)
           Sum(i) == IF i > n THEN 0 ELSE num_leaves(td.c[i]) + Sum(i + 1)
       IN Sum(1)

RECURSIVE num_nodes(_)
num_nodes(td) ==
  LET n == Len(td.c)
      RECURSIVE Sum(_)
      Sum(i) == IF i > n THEN 0 ELSE num_nodes(td.c[i]) + Sum(i + 1)
  IN 1 + Sum(1)

\* The rebuilt tree of a treedef from exactly num_leaves(td) leaves.
RECURSIVE Rebuild(_, _)
Rebuild(td, leaves) ==
  IF td.k = "*" THEN leaves[1]
  ELSE LET n == Len(td.c)
           RECURSIVE Before(_)
           Before(i) == IF i = 1 THEN 0
                        ELSE Before(i - 1) + num_leaves(td.c[i - 1])
       IN from_iter(td, [i \in 1..n |->
            Rebuild(td.c[i],
                    SubSeq(leaves, Before(i) + 1,
                           Before(i) + num_leaves(td.c[i])))])

\* PyTreeDef.unflatten: a structure-mismatch error unless the number of
\* leaves is num_leaves.
RegistryUnflatten(td, leaves) ==
  IF Len(leaves) # num_leaves(td)
  THEN [raised |-> TRUE, tree |-> NoneTree]
  ELSE [raised |-> FALSE, tree |-> Rebuild(td, leaves)]

\* PyTreeDef.flatten_up_to: x decomposed as far as the treedef has nodes. A
\* structure-mismatch error where x has another type, another number of
\* children or other node data than the treedef's node.
RECURSIVE flatten_up_to(_, _)
flatten_up_to(td, x) ==
  IF td.k = "*" THEN [raised |-> FALSE, leaves |-> <<x>>]
  ELSE IF x.k # td.k THEN [raised |-> TRUE, leaves |-> <<>>]
  ELSE LET one == to_iter(x)
           sub == [i \in 1..Len(td.c) |-> flatten_up_to(td.c[i], one.children[i])]
       IN IF \/ Len(one.children) # Len(td.c)
             \/ one.v # td.v
             \/ one.ks # td.ks
          THEN [raised |-> TRUE, leaves |-> <<>>]
          ELSE IF \E i \in 1..Len(td.c) : sub[i].raised
          THEN [raised |-> TRUE, leaves |-> <<>>]
          ELSE [raised |-> FALSE,
                leaves |-> ConcatAll([i \in 1..Len(td.c) |-> sub[i].leaves])]

-----------------------------------------------------------------------------
\* The explored inputs: every pytree of at most MaxNodes nodes. The leaves
\* being opaque, each leaf holds a value of its own, its position. The keys
\* of a mapping of n items, which the handlers only sort, are 1..n, in every
\* insertion order.

Factories == {1}
Funcs == {1}

\* The insertion orders of the keys 1..n.
KeySeqs(n) ==
  {ks \in [1..n -> 1..n] : \A i, j \in 1..n : i # j => ks[i] # ks[j]}

\* The pytrees of unregistered type and None.
Atoms == {LeafOf(0), NoneTree}

\* x with every leaf holding its position: 1 at the root, 10 * p + i for the
\* i-th element of the node at p.
RECURSIVE Labelled(_, _)
Labelled(x, p) ==
  IF x.k = "leaf" THEN LeafOf(p)
  ELSE Mk(x.k, x.v, x.ks, [i \in 1..Len(x.c) |-> Labelled(x.c[i], 10 * p + i)])

\* The container nodes whose children, in insertion order, are c.
NodesOver(c) ==
  LET w == Len(c)
  IN {Mk(kind, 0, <<>>, c) : kind \in SeqKinds}
     \cup {Mk(kind, 0, ks, c) : kind \in {"dict", "odict"}, ks \in KeySeqs(w)}
     \cup {Mk("ddict", fac, ks, c) : fac \in Factories, ks \in KeySeqs(w)}
     \cup (IF w = Len(NTFields) THEN {Mk("ntuple", 0, <<>>, c)} ELSE {})
     \cup (IF w = 2 /\ c[1].k = "tuple" /\ c[2].k = "dict"
           THEN {Mk("partial", fn, <<>>, c) : fn \in Funcs} ELSE {})

RECURSIVE TreesOfSize(_), Forests(_, _)
\* The sequences of w pytrees with n nodes in all.
Forests(n, w) ==
  IF w = 0 THEN (IF n = 0 THEN {<<>>} ELSE {})
  ELSE UNION { {<<h>> \o r : h \in TreesOfSize(i), r \in Forests(n - i, w - 1)}
               : i \in 1..(n - w + 1) }

\* The pytrees of n nodes.
TreesOfSize(n) ==
  (IF n = 1 THEN Atoms ELSE {})
  \cup UNION {NodesOver(c) : c \in UNION {Forests(n - 1, w) : w \in 0..(n - 1)}}

\* x is an explored input: a pytree of at most MaxNodes nodes.
IsInput(x) ==
  \/ \E y \in Atoms : x = Labelled(y, 1)
  \/ \E n \in 1..MaxNodes : \E w \in 0..(n - 1) : \E c \in Forests(n - 1, w) :
       \E y \in NodesOver(c) : x = Labelled(y, 1)

\* The second pytree of a call with two: the first one, or the first one
\* with one change (an insertion order reversed, a subtree made finer or
\* replaced, another leaf, a node of another type, a child less, another
\* key).

Reverse(s) == [i \in 1..Len(s) |-> s[Len(s) + 1 - i]]

\* Every Partial holds a tuple of arguments and a dict of keywords.
RECURSIVE WellFormed(_)
WellFormed(x) ==
  /\ x.k = "partial" => (x.c[1].k = "tuple" /\ x.c[2].k = "dict")
  /\ \A i \in 1..Len(x.c) : WellFormed(x.c[i])

\* The position of the last node of x without elements, by stored order.
RECURSIVE LastPath(_)
LastPath(x) ==
  IF x.c = <<>> THEN <<>> ELSE <<Len(x.c)>> \o LastPath(x.c[Len(x.c)])

RECURSIVE StoredAt(_, _)
StoredAt(x, q) == IF q = <<>> THEN x ELSE StoredAt(x.c[Head(q)], Tail(q))

RECURSIVE ReplaceAt(_, _, _)
ReplaceAt(x, q, y) ==
  IF q = <<>> THEN y
  ELSE Mk(x.k, x.v, x.ks,
          [x.c EXCEPT ![Head(q)] = ReplaceAt(x.c[Head(q)], Tail(q), y)])

Reversed(x) == Mk(x.k, x.v, Reverse(x.ks), Reverse(x.c))

Retyped(x) ==
  CASE x.k = "list"  -> Mk("tuple", 0, <<>>, x.c)
    [] x.k = "tuple" -> Mk("list", 0, <<>>, x.c)
    [] x.k = "dict"  -> Mk("odict", 0, x.ks, x.c)
    [] x.k = "odict" -> Mk("ddict", 1, x.ks, x.c)
    [] x.k = "ddict" -> Mk("dict", 0, x.ks, x.c)
    [] OTHER -> x

DropLast(x) ==
  IF x.c = <<>> \/ x.k \notin SeqKinds \cup MapKinds THEN x
  ELSE Mk(x.k, x.v,
          IF x.k \in MapKinds THEN SubSeq(x.ks, 1, Len(x.ks) - 1) ELSE <<>>,
          SubSeq(x.c, 1, Len(x.c) - 1))

Rekeyed(x) ==
  IF x.k \in MapKinds /\ x.ks # <<>>
  THEN Mk(x.k, x.v, [x.ks EXCEPT ![1] = Len(x.ks) + 1], x.c)
  ELSE x

Related(x) ==
  LET q == LastPath(x)
      r == Reversed(x)
  IN {y \in {x, r, Retyped(x), DropLast(x), Rekeyed(x),
             ReplaceAt(x, q, Mk("list", 0, <<>>, <<StoredAt(x, q)>>)),
             ReplaceAt(x, q, NoneTree),
             ReplaceAt(x, q, LeafOf(0)),
             ReplaceAt(r, LastPath(r), NoneTree)} : WellFormed(y)}

-----------------------------------------------------------------------------
\* The public operations.

\* tree_flatten not passing is_leaf on: default_registry.flatten(tree)
tree_flatten_no_is_leaf(x, pred) == RegistryFlatten(x, "absent")

\* tree_flatten taking the treedef from a flatten without is_leaf.
tree_flatten_mixed(x, pred) ==
  [leaves |-> RegistryFlatten(x, pred).leaves,
   treedef |-> RegistryFlatten(x, "absent").treedef]

\* tree_flatten: default_registry.flatten(tree, is_leaf)
tree_flatten(x, pred) == RegistryFlatten(x, pred)

\* tree_leaves: default_registry.flatten(tree, is_leaf)[0]
tree_leaves(x, pred) == RegistryFlatten(x, pred).leaves

\* tree_structure: default_registry.flatten(tree, is_leaf)[1]
tree_structure(x, pred) == RegistryFlatten(x, pred).treedef

\* tree_unflatten reading only as many leaves as the treedef needs,
\* treedef.unflatten(itertools.islice(leaves, treedef.num_leaves)).
tree_unflatten_islice(treedef, leaves) ==
  RegistryUnflatten(treedef,
    SubSeq(leaves, 1, IF Len(leaves) < num_leaves(treedef)
                      THEN Len(leaves) ELSE num_leaves(treedef)))

\* tree_unflatten: treedef.unflatten(leaves)
tree_unflatten(treedef, leaves) == RegistryUnflatten(treedef, leaves)

\* The mapped function: an opaque value recording the arguments of the call.
f(xs) == Mk("app", 0, <<>>, xs)

\* zip(*all_leaves): one tuple per index all the sequences have.
ZipAll(all_leaves) ==
  LET n == CHOOSE m \in 0..Len(all_leaves[1]) :
             /\ \A j \in 1..Len(all_leaves) : m <= Len(all_leaves[j])
             /\ \/ m = Len(all_leaves[1])
                \/ \E j \in 1..Len(all_leaves) : m = Len(all_leaves[j])
  IN [i \in 1..n |-> [j \in 1..Len(all_leaves) |-> all_leaves[j][i]]]

\* tree_map with the leaves of tree put after those of the rest trees:
\* all_leaves = [treedef.flatten_up_to(r) for r in rest] + [leaves]
tree_map_rest_first(x, rs, pred) ==
  LET flat == tree_flatten(x, pred)
      ups == [j \in 1..Len(rs) |-> flatten_up_to(flat.treedef, rs[j])]
  IN IF \E j \in 1..Len(rs) : ups[j].raised
     THEN [raised |-> TRUE, calls |-> <<>>, tree |-> NoneTree]
     ELSE LET all_leaves == [j \in 1..Len(rs) |-> ups[j].leaves] \o <<flat.leaves>>
              calls == ZipAll(all_leaves)
              res == RegistryUnflatten(flat.treedef,
                       [i \in 1..Len(calls) |-> f(calls[i])])
          IN [raised |-> res.raised, calls |-> calls, tree |-> res.tree]

\* tree_map flattening the rest trees in full:
\* all_leaves = [leaves] + [tree_leaves(r, is_leaf) for r in rest]
tree_map_full_flatten(x, rs, pred) ==
  LET flat == tree_flatten(x, pred)
      all_leaves == <<flat.leaves>> \o [j \in 1..Len(rs) |-> tree_leaves(rs[j], pred)]
      calls == ZipAll(all_leaves)
      res == RegistryUnflatten(flat.treedef, [i \in 1..Len(calls) |-> f(calls[i])])
  IN [raised |-> res.raised, calls |-> calls, tree |-> res.tree]

\* tree_map(f, tree, *rest, is_leaf=is_leaf); calls are the argument tuples
\* f was applied to, in order.
tree_map(x, rs, pred) ==
  LET flat == tree_flatten(x, pred)
      ups == [j \in 1..Len(rs) |-> flatten_up_to(flat.treedef, rs[j])]
  IN IF \E j \in 1..Len(rs) : ups[j].raised
     THEN [raised |-> TRUE, calls |-> <<>>, tree |-> NoneTree]
     ELSE LET all_leaves == <<flat.leaves>> \o [j \in 1..Len(rs) |-> ups[j].leaves]
              calls == ZipAll(all_leaves)
              res == RegistryUnflatten(flat.treedef,
                       [i \in 1..Len(calls) |-> f(calls[i])])
          IN [raised |-> res.raised, calls |-> calls, tree |-> res.tree]

-----------------------------------------------------------------------------
\* Key paths.

SequenceKey(idx) == [t |-> "SequenceKey", i |-> idx]
DictKey(key) == [t |-> "DictKey", i |-> key]
\* GetAttrKey(name): the attribute of a namedtuple is held by its position
\* in _fields, the field of a dataclass by its name.
GetAttrKey(n) == [t |-> "GetAttrKey", i |-> n]
FlattenedIndexKey(key) == [t |-> "FlattenedIndexKey", i |-> key]

\* The types with an entry in _registry_with_keypaths.
KeypathTypes == {t \in AllTypes : _registry_with_keypaths[t] # NoEntry}

\* The handler passed to _register_keypaths for type(xs): the keys of xs.
keypath_handler(xs) ==
  CASE xs.k \in SeqKinds ->
         [i \in 1..Len(xs.c) |-> SequenceKey(i - 1)]
    [] xs.k = "dict" ->
         LET keys == sorted(xs.ks) IN [i \in 1..Len(keys) |-> DictKey(keys[i])]
    [] xs.k \in {"ddict", "odict"} ->
         [i \in 1..Len(xs.ks) |-> DictKey(xs.ks[i])]
    [] xs.k \in UserTypes /\ default_registry[xs.k] = "register_dataclass" ->
         [i \in 1..Len(fields_of(xs.k).data_fields) |->
            GetAttrKey(fields_of(xs.k).data_fields[i])]
    [] xs.k \in UserTypes /\ default_registry[xs.k] # "register_dataclass" ->
         [i \in 1..Len(to_iter(xs).children) |-> GetAttrKey(i)]

\* flatten_with_keys zipping the keys with the values as stored,
\* zip(handler(xs), xs.values()), instead of the registered to_iter's.
flatten_with_keys_stored(xs) == Zip2(keypath_handler(xs), xs.c)

\* flatten_with_keys of _register_keypaths:
\* list(zip(handler(xs), _registry[ty].to_iter(xs)[0]))
flatten_with_keys(xs) == Zip2(keypath_handler(xs), to_iter(xs).children)

\* default_registry.flatten_one_level: None for an unregistered type.
registry_flatten_one_level(x) ==
  IF x.k \in RegisteredTypes
  THEN [none |-> FALSE, children |-> to_iter(x).children,
        v |-> to_iter(x).v, ks |-> to_iter(x).ks]
  ELSE [none |-> TRUE, children |-> <<>>, v |-> 0, ks |-> <<>>]

\* isinstance(x, tuple) and hasattr(x, '_fields')
IsNamedTuple(x) == x.k = "ntuple"

RECURSIVE _generate_key_paths_(_, _, _)
_generate_key_paths_(key_path, x, pred) ==
  LET walk(key_children) ==
        ConcatAll([i \in 1..Len(key_children) |->
          _generate_key_paths_(Append(key_path, key_children[i][1]),
                               key_children[i][2], pred)])
      flat == registry_flatten_one_level(x)
  IN IF IsLeafCall(pred, x) THEN << [path |-> key_path, leaf |-> x] >>
     ELSE IF x.k \in KeypathTypes THEN walk(flatten_with_keys(x))
     ELSE IF flat.none THEN << [path |-> key_path, leaf |-> x] >>
     ELSE IF IsNamedTuple(x)
          THEN walk([i \in 1..Len(NTFields) |-> <<GetAttrKey(i), x.c[i]>>])
          ELSE walk([i \in 1..Len(flat.children) |->
                       <<FlattenedIndexKey(i - 1), flat.children[i]>>])

\* generate_key_paths: list(_generate_key_paths_((), tree, is_leaf))
generate_key_paths(x, pred) == _generate_key_paths_(<<>>, x, pred)

-----------------------------------------------------------------------------
\* The state machine: the arguments of a call, the operation called last and
\* what it returned.

NoResult == [raised |-> FALSE]

Init ==
  /\ InitRegistries
  /\ data_fields = <<>>
  /\ meta_fields = <<>>
  /\ IsInput(tree)
  /\ rest = <<>>
  /\ is_leaf \in PredsFor(<<tree>>)
  /\ op = "start"
  /\ out = NoResult

TreeFlatten ==
  /\ op \in Ready
  /\ op' = "tree_flatten"
  /\ out' = [raised |-> FALSE, leaves |-> tree_flatten(tree, is_leaf).leaves,
             treedef |-> tree_flatten(tree, is_leaf).treedef]
  /\ UNCHANGED <<tree, rest, is_leaf, registries, dataclass>>

\* The leaf sequences handed to tree_unflatten: the flattened leaves, a
\* prefix of them (too few), and the leaves with one more (too many).
LeafInputs(flat) ==
  {SubSeq(flat, 1, n) : n \in 0..Len(flat)} \cup {Append(flat, LeafOf(0))}

TreeUnflatten ==
  /\ op \in Ready
  /\ \E leaves \in LeafInputs(tree_leaves(tree, is_leaf)) :
       LET treedef == tree_structure(tree, is_leaf)
           res == tree_unflatten(treedef, leaves)
       IN out' = [treedef |-> treedef, leaves |-> leaves,
                  raised |-> res.raised, tree |-> res.tree]
  /\ op' = "tree_unflatten"
  /\ UNCHANGED <<tree, rest, is_leaf, registries, dataclass>>

\* generate_key_paths keeping, for the type of a pytree without key handler,
\* a handler in _registry_with_keypaths.
GenerateKeyPathsCaching ==
  /\ op \in Ready
  /\ op' = "generate_key_paths"
  /\ out' = [raised |-> FALSE, kp |-> generate_key_paths(tree, is_leaf)]
  /\ _registry_with_keypaths' =
       IF tree.k \in AllTypes
       THEN [_registry_with_keypaths EXCEPT ![tree.k] = "generate_key_paths"]
       ELSE _registry_with_keypaths
  /\ UNCHANGED <<tree, rest, is_leaf, default_registry, none_leaf_registry,
                 dispatch_registry, _registry, dataclass>>

GenerateKeyPaths ==
  /\ op \in Ready
  /\ op' = "generate_key_paths"
  /\ out' = [raised |-> FALSE, kp |-> generate_key_paths(tree, is_leaf)]
  /\ UNCHANGED <<tree, rest, is_leaf, registries, dataclass>>


\* Calls with further pytrees: tree_map(f, tree, *rest, is_leaf).
InitMap ==
  /\ InitRegistries
  /\ data_fields = <<>>
  /\ meta_fields = <<>>
  /\ IsInput(tree)
  /\ rest \in {<<>>, <<tree, tree>>, <<tree, Retyped(tree)>>}
                \cup {<<r>> : r \in Related(tree)}
  /\ is_leaf \in PredsFor(<<tree>> \o rest)
  /\ op = "start"
  /\ out = NoResult

TreeMap ==
  /\ op \in Ready
  /\ op' = "tree_map"
  /\ out' = tree_map(tree, rest, is_leaf)
  /\ UNCHANGED <<tree, rest, is_leaf, registries, dataclass>>

NextMap == TreeMap

SpecMap == InitMap /\ [][NextMap]_vars

-----------------------------------------------------------------------------
\* Notions the properties are stated in.

\* Structural equality of two pytrees: same types, same leaf values, same
\* elements; a dict and a defaultdict as mappings whatever the insertion
\* order, an OrderedDict with its order.
RECURSIVE PyEq(_, _)
PyEq(a, b) ==
  /\ a.k = b.k
  /\ a.v = b.v
  /\ Len(a.c) = Len(b.c)
  /\ IF a.k \in {"dict", "ddict"}
     THEN /\ Range(a.ks) = Range(b.ks)
          /\ \A key \in Range(a.ks) : PyEq(GetItem(a, key), GetItem(b, key))
     ELSE /\ a.ks = b.ks
          /\ \A i \in 1..Len(a.c) : PyEq(a.c[i], b.c[i])

\* A position is the sequence of child indices leading to it from the root,
\* the children of a node being taken in the order its handler emits them.
RECURSIVE At(_, _)
At(x, q) == IF q = <<>> THEN x ELSE At(to_iter(x).children[Head(q)], Tail(q))

RECURSIVE TdAt(_, _)
TdAt(td, q) == IF q = <<>> THEN td ELSE TdAt(td.c[Head(q)], Tail(q))

\* The traversal stops at x: the predicate holds, or the type is unregistered.
Stops(x, pred) == IsLeafCall(pred, x) \/ x.k \notin RegisteredTypes

\* The positions a traversal of x reaches.
RECURSIVE Visited(_, _)
Visited(x, pred) ==
  IF Stops(x, pred) THEN {<<>>}
  ELSE LET kids == to_iter(x).children
       IN {<<>>} \cup UNION { {<<i>> \o q : q \in Visited(kids[i], pred)}
                              : i \in 1..Len(kids) }

LeafPositions(x, pred) == {q \in Visited(x, pred) : Stops(At(x, q), pred)}

\* The positions of a treedef.
RECURSIVE TdPositions(_)
TdPositions(td) ==
  {<<>>} \cup UNION { {<<i>> \o q : q \in TdPositions(td.c[i])}
                      : i \in 1..Len(td.c) }

\* p comes before q in a left-to-right depth-first traversal (neither being
\* a prefix of the other).
Before(p, q) ==
  \E i \in 1..Len(p) :
    /\ i <= Len(q)
    /\ p[i] < q[i]
    /\ \A j \in 1..(i - 1) : p[j] = q[j]

\* The rank of q among the positions S, from 1.
Rank(S, q) == 1 + Cardinality({r \in S : Before(r, q)})

\* The insertion orders of the mapping x: x with its items permuted.
Reorderings(x) ==
  {Mk(x.k, x.v, [i \in 1..Len(x.ks) |-> x.ks[perm[i]]],
                [i \in 1..Len(x.ks) |-> x.c[perm[i]]]) :
     perm \in {g \in [1..Len(x.ks) -> 1..Len(x.ks)] :
              \A i, j \in 1..Len(x.ks) : i # j => g[i] # g[j]}}

-----------------------------------------------------------------------------
\* Properties.

\* C1: round trip. Unflattening the treedef of a pytree with the leaves the
\* same flatten produced gives, without error, a pytree structurally equal
\* to the original.
C1_RoundTrip ==
  (op = "tree_unflatten" /\ out.leaves = tree_leaves(tree, is_leaf))
    => (~out.raised /\ PyEq(out.tree, tree))

\* A defaultdict whose keys were inserted in descending order has made the trip.
C1_Witness ==
  /\ op = "tree_unflatten"
  /\ tree.k = "ddict" /\ tree.ks = <<2, 1>> /\ tree.c[1] # tree.c[2]
  /\ is_leaf = "absent"
  /\ out.leaves = tree_leaves(tree, is_leaf)
  /\ ~out.raised

\* C2: tree_flatten visits the tree depth-first, left to right. A subtree
\* the predicate accepts is one leaf even when its type is registered, a
\* value of unregistered type is one leaf, the leaves are the leaf positions'
\* subtrees in traversal order, and the treedef has a Leaf exactly at the
\* leaf positions and a node of the visited type elsewhere.
C2_DepthFirst ==
  op = "tree_flatten" =>
    LET LP == LeafPositions(tree, is_leaf)
    IN /\ Len(out.leaves) = Cardinality(LP)
       /\ \A q \in LP : out.leaves[Rank(LP, q)] = At(tree, q)
       /\ TdPositions(out.treedef) = Visited(tree, is_leaf)
       /\ \A q \in Visited(tree, is_leaf) :
            IF q \in LP THEN TdAt(out.treedef, q).k = "*"
            ELSE TdAt(out.treedef, q).k = At(tree, q).k

\* A list inside a tuple was recorded as one leaf because the predicate
\* accepts lists.
C2_Witness ==
  /\ op = "tree_flatten"
  /\ is_leaf = "list"
  /\ tree.k = "tuple" /\ Len(tree.c) = 1
  /\ tree.c[1].k = "list" /\ Len(tree.c[1].c) = 1
  /\ out.leaves = <<tree.c[1]>>

\* C3: tree_unflatten fails, and returns no tree, whenever the number of
\* leaves supplied differs from the number of Leaf positions of the treedef,
\* with too few as with too many.
C3_LeafCountMismatch ==
  op = "tree_unflatten" =>
    (out.raised <=>
       Len(out.leaves) # Cardinality({q \in TdPositions(out.treedef) :
                                        TdAt(out.treedef, q).k = "*"}))

\* One leaf too many was supplied for a treedef of two leaves.
C3_Witness ==
  /\ op = "tree_unflatten"
  /\ num_leaves(out.treedef) = 2
  /\ Len(out.leaves) = 3
  /\ out.raised

\* C4: the output of tree_flatten has as many leaves as its treedef has Leaf
\* occurrences, which is its num_leaves; a node without children contributes
\* no leaf.
C4_LeafCount ==
  op = "tree_flatten" =>
    /\ num_leaves(out.treedef) = Len(out.leaves)
    /\ num_leaves(out.treedef) =
         Cardinality({q \in TdPositions(out.treedef) :
                        TdAt(out.treedef, q).k = "*"})
    /\ \A q \in TdPositions(out.treedef) :
         (TdAt(out.treedef, q).k # "*" /\ TdAt(out.treedef, q).c = <<>>)
           => num_leaves(TdAt(out.treedef, q)) = 0

\* A tuple holding an empty list, taken as a leaf by the predicate, and a
\* None flattened to the one leaf.
C4_Witness ==
  /\ op = "tree_flatten"
  /\ is_leaf = "list"
  /\ tree.k = "tuple" /\ Len(tree.c) = 2
  /\ tree.c[1].k = "list" /\ tree.c[2].k = "none"
  /\ Len(out.leaves) = 1

\* C5: canonical mapping order. A dict flattens to the leaves of its values
\* in sorted key order and to a treedef recording the sorted keys, and every
\* other insertion order of the same items flattens to the same result.
C5_CanonicalOrder ==
  (op = "tree_flatten" /\ tree.k = "dict" /\ is_leaf = "absent") =>
    LET keys == sorted(tree.ks)
    IN /\ out.treedef.ks = keys
       /\ out.leaves = ConcatAll([i \in 1..Len(keys) |->
                          tree_leaves(GetItem(tree, keys[i]), is_leaf)])
       /\ \A d \in Reorderings(tree) :
            /\ tree_flatten(d, is_leaf).leaves = out.leaves
            /\ tree_flatten(d, is_leaf).treedef = out.treedef

\* {2: x, 1: y} with x # y, inserted in that order, flattened to [y, x].
C5_Witness ==
  /\ op = "tree_flatten"
  /\ is_leaf = "absent"
  /\ tree.k = "dict" /\ tree.ks = <<2, 1>>
  /\ tree.c[1].k = "leaf" /\ tree.c[2].k = "leaf" /\ tree.c[1] # tree.c[2]
  /\ out.leaves = <<tree.c[2], tree.c[1]>>

\* The subtree a key addresses in x.
KeyStep(x, key) ==
  CASE key.t = "SequenceKey" -> x.c[key.i + 1]
    [] key.t = "DictKey" -> GetItem(x, key.i)
    [] key.t = "GetAttrKey" -> x.c[key.i]
    [] key.t = "FlattenedIndexKey" -> to_iter(x).children[key.i + 1]

\* The subtree a key path addresses from the root x.
RECURSIVE Resolve(_, _)
Resolve(x, key_path) ==
  IF key_path = <<>> THEN x
  ELSE Resolve(KeyStep(x, Head(key_path)), Tail(key_path))

\* C8: generate_key_paths has one entry per leaf of tree_flatten, the leaves
\* in the order of tree_flatten, for every node type and predicate.
C8_KeyPathLeaves ==
  op = "generate_key_paths" =>
    [i \in 1..Len(out.kp) |-> out.kp[i].leaf] = tree_leaves(tree, is_leaf)

\* The key paths of {2: x, 1: y}, x # y, inserted in that order, were
\* generated: y first.
C8_Witness ==
  /\ op = "generate_key_paths"
  /\ is_leaf = "absent"
  /\ tree.k = "dict" /\ tree.ks = <<2, 1>>
  /\ tree.c[1].k = "leaf" /\ tree.c[2].k = "leaf" /\ tree.c[1] # tree.c[2]
  /\ Len(out.kp) = 2 /\ out.kp[1].leaf = tree.c[2]

\* C9: every key path generate_key_paths returns addresses, from the root,
\* the leaf it is paired with, for every insertion order of the mappings.
C9_KeyPathAddressesLeaf ==
  op = "generate_key_paths" =>
    \A i \in 1..Len(out.kp) : Resolve(tree, out.kp[i].path) = out.kp[i].leaf

\* The positions of x where its treedef has a node.
NodePositions(x, pred) == Visited(x, pred) \ LeafPositions(x, pred)

\* The position q exists in r.
RECURSIVE ValidPos(_, _)
ValidPos(r, q) ==
  \/ q = <<>>
  \/ /\ r.k \in RegisteredTypes
     /\ Head(q) <= Len(to_iter(r).children)
     /\ ValidPos(to_iter(r).children[Head(q)], Tail(q))

\* r has, at the position q, a node of another type, with another number of
\* children or with other node metadata than the node a has there.
DiffersAt(a, r, q) ==
  /\ ValidPos(r, q)
  /\ \/ At(r, q).k # At(a, q).k
     \/ Len(to_iter(At(r, q)).children) # Len(to_iter(At(a, q)).children)
     \/ to_iter(At(r, q)).v # to_iter(At(a, q)).v
     \/ to_iter(At(r, q)).ks # to_iter(At(a, q)).ks

\* x, as flattened with pred, is a prefix of r: wherever the treedef of x
\* has a node, r has a node of that type, arity and metadata.
IsPrefixOf(x, pred, r) ==
  \A q \in NodePositions(x, pred) : ValidPos(r, q) /\ ~DiffersAt(x, r, q)

\* C6: tree_map. When every rest tree has the structure of tree as a prefix,
\* tree_map succeeds, f is applied once per leaf of tree, in flatten order,
\* to the leaf and the subtrees of the rest trees at the position of that
\* leaf (and never when tree has no leaves), and the result has the
\* structure of tree with the values of f as its leaves.
C6_TreeMap ==
  (op = "tree_map" /\ \A j \in 1..Len(rest) : IsPrefixOf(tree, is_leaf, rest[j]))
    => LET LP == LeafPositions(tree, is_leaf)
       IN /\ ~out.raised
          /\ tree_structure(out.tree, "absent") = tree_structure(tree, is_leaf)
          /\ Len(out.calls) = Cardinality(LP)
          /\ \A q \in LP :
               /\ out.calls[Rank(LP, q)] =
                    <<At(tree, q)>> \o [j \in 1..Len(rest) |-> At(rest[j], q)]
               /\ tree_leaves(out.tree, "absent")[Rank(LP, q)] =
                    f(out.calls[Rank(LP, q)])

\* tree_map(f, [x, y], [x, [y]]) returned [f(x, x), f(y, [y])].
C6_Witness ==
  /\ op = "tree_map"
  /\ ~out.raised
  /\ tree.k = "list" /\ Len(tree.c) = 2
  /\ tree.c[1].k = "leaf" /\ tree.c[2].k = "leaf"
  /\ Len(rest) = 1 /\ rest[1].k = "list" /\ Len(rest[1].c) = 2
  /\ rest[1].c[2] = Mk("list", 0, <<>>, <<tree.c[2]>>)
  /\ out.tree = Mk("list", 0, <<>>, << f(<<tree.c[1], rest[1].c[1]>>),
                                      f(<<tree.c[2], rest[1].c[2]>>) >>)

\* C7: tree_map fails, without applying f, exactly when some rest tree has,
\* at a position where the treedef of tree has a node, another node type,
\* another number of children or other node metadata; a rest tree finer than
\* tree only below the leaves of tree is not rejected.
C7_TreeMapMismatch ==
  op = "tree_map" =>
    /\ out.raised <=>
         \E j \in 1..Len(rest) : \E q \in NodePositions(tree, is_leaf) :
           DiffersAt(tree, rest[j], q)
    /\ out.raised => out.calls = <<>>

\* A dict was mapped with a dict of as many items under other keys, and
\* tree_map failed.
C7_Witness ==
  /\ op = "tree_map"
  /\ out.raised
  /\ is_leaf = "absent"
  /\ tree.k = "dict" /\ Len(tree.c) = 2
  /\ Len(rest) = 1 /\ rest[1].k = "dict" /\ Len(rest[1].c) = 2
  /\ Range(rest[1].ks) # Range(tree.ks)

-----------------------------------------------------------------------------
\* Structural diagnostics.

\* treedef_is_leaf: treedef.num_nodes == 1
treedef_is_leaf(treedef) == num_nodes(treedef) = 1

treedef_is_strict_leaf(treedef) ==
  num_nodes(treedef) = 1 /\ num_leaves(treedef) = 1

\* flatten_one_level without the test of the registry's answer: a pytree of
\* unregistered type gives no children and no metadata.
flatten_one_level_unchecked(pytree) ==
  LET flat == registry_flatten_one_level(pytree)
  IN [raised |-> FALSE, children |-> flat.children,
      meta |-> <<flat.v, flat.ks>>]

\* flatten_one_level: the children and the metadata of a registered node,
\* ValueError for a pytree of unregistered type.
flatten_one_level(pytree) ==
  LET flat == registry_flatten_one_level(pytree)
  IN [raised |-> flat.none, children |-> flat.children,
      meta |-> <<flat.v, flat.ks>>]

\* _child_keys: the keys of the children of a node; the assertion fails for
\* a leaf.
_child_keys(pytree) ==
  LET n == Len(tree_structure(pytree, "absent").c)
  IN [raised |-> treedef_is_strict_leaf(tree_structure(pytree, "absent")),
      keys |->
        IF pytree.k \in KeypathTypes
          THEN [i \in 1..Len(flatten_with_keys(pytree)) |->
                  flatten_with_keys(pytree)[i][1]]
        ELSE IF IsNamedTuple(pytree)
          THEN [i \in 1..Len(NTFields) |-> GetAttrKey(i)]
        ELSE [i \in 1..n |-> FlattenedIndexKey(i - 1)]]

\* What the generator yielded, and the exception that ended it (if any).
Yielded(its) == [raised |-> FALSE, exc |-> "", items |-> its]
Raising(e) == [raised |-> TRUE, exc |-> e, items |-> <<>>]

RECURSIVE _equality_errors(_, _, _, _), EqualityOfChildren(_, _, _, _, _, _)

\* _equality_errors comparing the metadata before the numbers of children.
_equality_errors_meta_first(path, t1, t2, pred) ==
  LET one1 == flatten_one_level(t1)
      one2 == flatten_one_level(t2)
      item(thing1, thing2, why) ==
        Yielded(<< [path |-> path, thing1 |-> thing1, thing2 |-> thing2,
                    why |-> why] >>)
  IN IF /\ treedef_is_strict_leaf(tree_structure(t1, pred))
        /\ treedef_is_strict_leaf(tree_structure(t2, pred))
       THEN Yielded(<<>>)
     ELSE IF t1.k # t2.k
       THEN item(<<t1.k>>, <<t2.k>>, "their Python types differ")
     ELSE IF t1.k \in SeqKinds \cup {"ntuple"} /\ Len(t1.c) # Len(t2.c)
       THEN item(<<t1.k, Len(t1.c)>>, <<t2.k, Len(t2.c)>>,
                 "the lengths do not match")
     ELSE IF one1.meta # one2.meta
       THEN item(<<t1.k, one1.meta>>, <<t2.k, one2.meta>>,
                 "the pytree node metadata does not match")
     ELSE IF Len(one1.children) # Len(one2.children)
       THEN item(<<t1.k, Len(one1.children)>>, <<t2.k, Len(one2.children)>>,
                 "the numbers of children do not match")
     ELSE EqualityOfChildren(path, _child_keys(t1).keys, one1.children,
                             one2.children, pred, 1)

_equality_errors(path, t1, t2, pred) ==
  LET one1 == flatten_one_level(t1)
      one2 == flatten_one_level(t2)
      keys1 == _child_keys(t1)
      keys2 == _child_keys(t2)
      item(thing1, thing2, why) ==
        Yielded(<< [path |-> path, thing1 |-> thing1, thing2 |-> thing2,
                    why |-> why] >>)
  IN IF /\ treedef_is_strict_leaf(tree_structure(t1, pred))
        /\ treedef_is_strict_leaf(tree_structure(t2, pred))
       THEN Yielded(<<>>)
     ELSE IF t1.k # t2.k
       THEN item(<<t1.k>>, <<t2.k>>, "their Python types differ")
     ELSE IF t1.k \in SeqKinds \cup {"ntuple"} /\ Len(t1.c) # Len(t2.c)
       THEN item(<<t1.k, Len(t1.c)>>, <<t2.k, Len(t2.c)>>,
                 "the lengths do not match")
     ELSE IF one1.raised \/ one2.raised
       THEN Raising("ValueError")
     ELSE IF keys1.raised \/ keys2.raised
       THEN Raising("AssertionError")
     ELSE IF Len(one1.children) # Len(one2.children)
       THEN item(<<t1.k, Len(one1.children)>>, <<t2.k, Len(one2.children)>>,
                 "the numbers of children do not match")
     ELSE IF one1.meta # one2.meta
       THEN item(<<t1.k, one1.meta>>, <<t2.k, one2.meta>>,
                 "the pytree node metadata does not match")
     ELSE IF keys1.keys # keys2.keys
       THEN Raising("AssertionError")
     ELSE EqualityOfChildren(path, keys1.keys, one1.children, one2.children,
                             pred, 1)

\* The loop over the children yielding the items of the later children
\* before the items of the earlier ones.
RECURSIVE EqualityOfChildrenBackwards(_, _, _, _, _, _)
EqualityOfChildrenBackwards(path, keys, c1, c2, pred, i) ==
  IF i > Len(keys) \/ i > Len(c1) \/ i > Len(c2) THEN Yielded(<<>>)
  ELSE LET here == _equality_errors(Append(path, keys[i]), c1[i], c2[i], pred)
           later == EqualityOfChildrenBackwards(path, keys, c1, c2, pred,
                                                i + 1)
       IN IF here.raised THEN here
          ELSE [raised |-> later.raised, exc |-> later.exc,
                items |-> later.items \o here.items]

\* for k, c1, c2 in zip(t1_keys, t1_children, t2_children), from the i-th on.
EqualityOfChildren(path, keys, c1, c2, pred, i) ==
  IF i > Len(keys) \/ i > Len(c1) \/ i > Len(c2) THEN Yielded(<<>>)
  ELSE LET here == _equality_errors(Append(path, keys[i]), c1[i], c2[i], pred)
           later == EqualityOfChildren(path, keys, c1, c2, pred, i + 1)
       IN IF here.raised THEN here
          ELSE [raised |-> later.raised, exc |-> later.exc,
                items |-> here.items \o later.items]

\* equality_errors, consumed to its end.
equality_errors(tree1, tree2, pred) == _equality_errors(<<>>, tree1, tree2, pred)

\* Calls with two pytrees to compare: equality_errors(tree, rest[1], is_leaf).
InitEq ==
  /\ InitRegistries
  /\ data_fields = <<>>
  /\ meta_fields = <<>>
  /\ IsInput(tree)
  /\ rest \in {<<r>> : r \in Related(tree)}
  /\ is_leaf \in PredsFor(<<tree>> \o rest)
  /\ op = "start"
  /\ out = NoResult

EqualityErrors ==
  /\ op \in Ready
  /\ op' = "equality_errors"
  /\ out' = equality_errors(tree, rest[1], is_leaf)
  /\ UNCHANGED <<tree, rest, is_leaf, registries, dataclass>>

\* C10: without is_leaf, equality_errors comes to its end without an item
\* exactly when the two pytrees have equal structures.
C10_EmptyIffEqual ==
  (op = "equality_errors" /\ is_leaf = "absent")
    => ((~out.raised /\ out.items = <<>>)
          <=> tree_structure(tree, "absent") = tree_structure(rest[1], "absent"))

\* C24: for every is_leaf, equality_errors yields no item exactly when the
\* two pytrees have equal structures under is_leaf.
C24_EqualityHonoursIsLeaf ==
  (op = "equality_errors" /\ ~out.raised)
    => (out.items = <<>>
          <=> tree_structure(tree, is_leaf) = tree_structure(rest[1], is_leaf))

-----------------------------------------------------------------------------
\* Prefix diagnostics.

RECURSIVE _prefix_error(_, _, _, _), PrefixOfChildren(_, _, _, _, _)
\* The errors are held as the key path and the first line of the message of
\* each deferred ValueError.
_prefix_error(key_path, prefix_tree, full_tree, pred) ==
  LET one1 == flatten_one_level(prefix_tree)
      one2 == flatten_one_level(full_tree)
      keys1 == _child_keys(prefix_tree)
      keys2 == _child_keys(full_tree)
      error(why) == Yielded(<< [path |-> key_path, why |-> why] >>)
  IN IF treedef_is_strict_leaf(tree_structure(prefix_tree, pred))
       THEN Yielded(<<>>)
     ELSE IF prefix_tree.k # full_tree.k
       THEN error("different types")
     ELSE IF one1.raised \/ one2.raised
       THEN Raising("ValueError")
     ELSE IF keys1.raised \/ keys2.raised
       THEN Raising("AssertionError")
     ELSE IF /\ prefix_tree.k \in SeqKinds \cup {"ntuple"}
             /\ Len(prefix_tree.c) # Len(full_tree.c)
       THEN error("different lengths")
     ELSE IF /\ prefix_tree.k \notin SeqKinds \cup {"ntuple"}
             /\ Len(one1.children) # Len(one2.children)
       THEN error("different numbers of pytree children")
     ELSE IF one1.meta # one2.meta
       THEN error("different pytree metadata")
     ELSE IF keys1.keys # keys2.keys
       THEN Raising("AssertionError")
     ELSE PrefixOfChildren(key_path, keys1.keys, one1.children,
                           one2.children, 1)

\* for k, t1, t2 in zip(prefix_tree_keys, prefix_tree_children,
\* full_tree_children), from the i-th on: the recursive call is made without
\* is_leaf.
PrefixOfChildren(key_path, keys, c1, c2, i) ==
  IF i > Len(keys) \/ i > Len(c1) \/ i > Len(c2) THEN Yielded(<<>>)
  ELSE LET here == _prefix_error(Append(key_path, keys[i]), c1[i], c2[i],
                                 "absent")
           later == PrefixOfChildren(key_path, keys, c1, c2, i + 1)
       IN IF here.raised THEN here
          ELSE [raised |-> later.raised, exc |-> later.exc,
                items |-> here.items \o later.items]

\* prefix_errors: list(_prefix_error((), prefix_tree, full_tree, is_leaf))
prefix_errors(prefix_tree, full_tree, pred) ==
  _prefix_error(<<>>, prefix_tree, full_tree, pred)

PrefixErrors ==
  /\ op \in Ready
  /\ op' = "prefix_errors"
  /\ out' = prefix_errors(tree, rest[1], is_leaf)
  /\ UNCHANGED <<tree, rest, is_leaf, registries, dataclass>>

\* Calls of the two diagnostics.
NextEq == EqualityErrors \/ PrefixErrors

SpecEq == InitEq /\ [][NextEq]_vars

\* The key path the diagnostics give the position q of x: the keys of
\* _child_keys, taken by the index of the child.
RECURSIVE KeyPathAt(_, _)
KeyPathAt(x, q) ==
  IF q = <<>> THEN <<>>
  ELSE <<_child_keys(x).keys[Head(q)]>>
         \o KeyPathAt(to_iter(x).children[Head(q)], Tail(q))

\* a is a prefix of the sequence b.
IsPrefixSeq(a, b) == Len(a) <= Len(b) /\ SubSeq(b, 1, Len(a)) = a

\* The position a key path of the diagnostics stands for in x: the indices
\* of the children it goes through.
RECURSIVE PositionOf(_, _)
PositionOf(x, path) ==
  IF path = <<>> THEN <<>>
  ELSE LET i == IndexOf(_child_keys(x).keys, Head(path))
       IN <<i>> \o PositionOf(to_iter(x).children[i], Tail(path))

\* The position p comes before the position q in a traversal from left to
\* right, neither being above the other.
RECURSIVE ComesBefore(_, _)
ComesBefore(p, q) ==
  /\ p # <<>> /\ q # <<>>
  /\ \/ Head(p) < Head(q)
     \/ Head(p) = Head(q) /\ ComesBefore(Tail(p), Tail(q))

\* C26: one report per divergence point. In what equality_errors and
\* prefix_errors report no two key paths are equal and none is a prefix of
\* another, and the reports come in the order of a traversal of the children
\* from left to right.
C26_OneReportPerPoint ==
  op \in {"equality_errors", "prefix_errors"} =>
    \A i \in 1..Len(out.items) : \A j \in 1..Len(out.items) :
      i < j =>
        /\ out.items[i].path # out.items[j].path
        /\ ~IsPrefixSeq(out.items[i].path, out.items[j].path)
        /\ ~IsPrefixSeq(out.items[j].path, out.items[i].path)
        /\ ComesBefore(PositionOf(tree, out.items[i].path),
                       PositionOf(tree, out.items[j].path))

\* equality_errors reported two points of a pytree.
C26_Witness ==
  /\ op = "equality_errors"
  /\ Len(out.items) = 2
  /\ out.items[1].path # out.items[2].path

\* C11: a leaf of prefix_tree always succeeds. At a position of prefix_tree
\* that is a leaf under is_leaf (the predicate accepts it, or its type is
\* not registered), at any depth, prefix_errors reports no error at or
\* below that position.
C11_LeafPrefixSucceeds ==
  op = "prefix_errors" =>
    \A q \in LeafPositions(tree, is_leaf) : \A i \in 1..Len(out.items) :
      ~IsPrefixSeq(KeyPathAt(tree, q), out.items[i].path)

\* C12: without is_leaf, prefix_errors returns the empty list exactly when
\* the treedef of the prefix tree flattens the full tree up to it.
C12_PrefixAgreesWithEngine ==
  (op = "prefix_errors" /\ is_leaf = "absent")
    => ((~out.raised /\ out.items = <<>>)
          <=> ~flatten_up_to(tree_structure(tree, "absent"), rest[1]).raised)

\* C13: consuming equality_errors and calling prefix_errors never raises.
C13_DiagnosticsNeverRaise ==
  op \in {"equality_errors", "prefix_errors"} => ~out.raised

\* C14: the check order of equality_errors at a pair of nodes that are not
\* both leaves: the types, then the lengths of lists and tuples, then the
\* numbers of children, then the metadata; one item, for the first of these
\* checks that fails, and none for the pair when all pass.
C14_CheckOrder ==
  (/\ op = "equality_errors"
   /\ ~(/\ treedef_is_strict_leaf(tree_structure(tree, is_leaf))
        /\ treedef_is_strict_leaf(tree_structure(rest[1], is_leaf))))
    => LET one1 == flatten_one_level(tree)
           one2 == flatten_one_level(rest[1])
           only(why) == /\ Len(out.items) = 1
                        /\ out.items[1].path = <<>>
                        /\ out.items[1].why = why
       IN IF tree.k # rest[1].k
            THEN only("their Python types differ")
          ELSE IF /\ tree.k \in SeqKinds \cup {"ntuple"}
                  /\ Len(tree.c) # Len(rest[1].c)
            THEN only("the lengths do not match")
          ELSE IF Len(one1.children) # Len(one2.children)
            THEN only("the numbers of children do not match")
          ELSE IF one1.meta # one2.meta
            THEN only("the pytree node metadata does not match")
          ELSE \A i \in 1..Len(out.items) : out.items[i].path # <<>>

\* Two dicts with different numbers of keys, hence different metadata too,
\* gave the item about the numbers of children only.
C14_Witness ==
  /\ op = "equality_errors"
  /\ tree.k = "dict" /\ rest[1].k = "dict"
  /\ Len(tree.c) = 2 /\ Len(rest[1].c) = 1
  /\ flatten_one_level(tree).meta # flatten_one_level(rest[1]).meta
  /\ Len(out.items) = 1
  /\ out.items[1].why = "the numbers of children do not match"

-----------------------------------------------------------------------------
\* tree_transpose.

\* PyTreeDef.compose: the outer treedef with every Leaf replaced by inner.
RECURSIVE compose(_, _)
compose(outer, inner) ==
  IF outer.k = "*" THEN inner
  ELSE Mk(outer.k, outer.v, outer.ks,
          [i \in 1..Len(outer.c) |-> compose(outer.c[i], inner)])

\* inner_treedef=None
NoInner == Mk("NoneType", 0, <<>>, <<>>)

\* tree_transpose ending with a given exception.
TransposeRaising(e, expected_treedef) ==
  [raised |-> TRUE, exc |-> e, expected |-> expected_treedef,
   tree |-> NoneTree]

\* The inner treedef tree_transpose works with: the one given, or, for None,
\* tree_structure(outer_treedef.flatten_up_to(pytree_to_transpose)[0]).
InnerTreedef(outer_treedef, inner_treedef, pytree_to_transpose) ==
  LET up == flatten_up_to(outer_treedef, pytree_to_transpose)
  IN IF inner_treedef # NoInner
       THEN [raised |-> FALSE, exc |-> "", treedef |-> inner_treedef]
     ELSE IF up.raised
       THEN [raised |-> TRUE, exc |-> "ValueError", treedef |-> LeafDef]
     ELSE IF up.leaves = <<>>
       THEN [raised |-> TRUE, exc |-> "IndexError", treedef |-> LeafDef]
     ELSE [raised |-> FALSE, exc |-> "",
           treedef |-> tree_structure(up.leaves[1], "absent")]

\* tree_transpose without the comparison of the numbers of leaves: the rows
\* are filled as far as the leaves reach.
tree_transpose_unchecked(outer_treedef, inner_treedef, pytree_to_transpose) ==
  LET flat == tree_flatten(pytree_to_transpose, "absent").leaves
      inferred == InnerTreedef(outer_treedef, inner_treedef,
                               pytree_to_transpose)
      inner_size == num_leaves(inferred.treedef)
      outer_size == num_leaves(outer_treedef)
      cell(i, j) == IF (i - 1) * inner_size + j <= Len(flat)
                    THEN flat[(i - 1) * inner_size + j] ELSE LeafOf(0)
      subtrees == IF outer_size = 0 THEN <<>>
                  ELSE [j \in 1..inner_size |->
                          tree_unflatten(outer_treedef,
                            [i \in 1..outer_size |-> cell(i, j)]).tree]
      res == tree_unflatten(inferred.treedef, subtrees)
  IN IF inferred.raised THEN TransposeRaising(inferred.exc, LeafDef)
     ELSE IF res.raised THEN TransposeRaising("ValueError", LeafDef)
     ELSE [raised |-> FALSE, exc |-> "", expected |-> LeafDef,
           tree |-> res.tree]

tree_transpose(outer_treedef, inner_treedef, pytree_to_transpose) ==
  LET flat == tree_flatten(pytree_to_transpose, "absent").leaves
      treedef == tree_flatten(pytree_to_transpose, "absent").treedef
      inferred == InnerTreedef(outer_treedef, inner_treedef,
                               pytree_to_transpose)
      inner_size == num_leaves(inferred.treedef)
      outer_size == num_leaves(outer_treedef)
      \* lol[i][j]
      lol == [i \in 1..outer_size |->
                [j \in 1..inner_size |-> flat[(i - 1) * inner_size + j]]]
      \* zip(*lol): no row at all when lol is empty
      transposed_lol == IF outer_size = 0 THEN <<>>
                        ELSE [j \in 1..inner_size |->
                                [i \in 1..outer_size |-> lol[i][j]]]
      subtrees == [j \in 1..Len(transposed_lol) |->
                     tree_unflatten(outer_treedef, transposed_lol[j]).tree]
      res == tree_unflatten(inferred.treedef, subtrees)
  IN IF inferred.raised
       THEN TransposeRaising(inferred.exc, LeafDef)
     ELSE IF num_leaves(treedef) # inner_size * outer_size
       THEN TransposeRaising("TypeError",
                             compose(outer_treedef, inferred.treedef))
     ELSE IF res.raised
       THEN TransposeRaising("ValueError", LeafDef)
     ELSE [raised |-> FALSE, exc |-> "", expected |-> LeafDef,
           tree |-> res.tree]

\* The inner pytrees of the explored calls.
InnerTrees ==
  { LeafOf(0), NoneTree,
    Mk("tuple", 0, <<>>, <<LeafOf(0), LeafOf(0)>>),
    Mk("dict", 0, <<2, 1>>, <<LeafOf(0), NoneTree>>) }

\* The pytrees handed over for a pytree x of the composed structure: x, and
\* x with its type changed, a child less, a leaf replaced by None or made a
\* list.
Transposed(x) ==
  LET q == LastPath(x)
  IN {y \in {x, Retyped(x), DropLast(x), ReplaceAt(x, q, NoneTree),
             ReplaceAt(x, q, Mk("list", 0, <<>>, <<StoredAt(x, q)>>))} :
        WellFormed(y)}

\* The pytree x with every leaf replaced by the pytree i.
RECURSIVE Graft(_, _)
Graft(x, i) ==
  IF x.k = "leaf" THEN i
  ELSE Mk(x.k, x.v, x.ks, [n \in 1..Len(x.c) |-> Graft(x.c[n], i)])

\* Calls tree_transpose(tree_structure(rest[1]), tree_structure(rest[2]),
\* tree), and tree_transpose(tree_structure(rest[1]), None, tree) where rest
\* holds one pytree only: the outer treedef is that of an explored input, the
\* pytree to transpose is one of structure outer composed with inner, one
\* change away from it, or the outer pytree.
InitTranspose ==
  /\ InitRegistries
  /\ data_fields = <<>>
  /\ meta_fields = <<>>
  /\ \E n \in 1..MaxNodes : \E x \in TreesOfSize(n) : \E i \in InnerTrees :
       /\ rest \in {<<x, i>>, <<x>>}
       /\ tree \in Transposed(Labelled(Graft(x, i), 1)) \cup {Labelled(x, 1)}
  /\ is_leaf = "absent"
  /\ op = "start"
  /\ out = NoResult

\* The treedef arguments of the call.
OuterTreedef == tree_structure(rest[1], "absent")
InnerTreedefArg ==
  IF Len(rest) = 1 THEN NoInner ELSE tree_structure(rest[2], "absent")

TreeTranspose ==
  /\ op \in Ready
  /\ op' = "tree_transpose"
  /\ out' = tree_transpose(OuterTreedef, InnerTreedefArg, tree)
  /\ UNCHANGED <<tree, rest, is_leaf, registries, dataclass>>

NextTranspose == TreeTranspose

SpecTranspose == InitTranspose /\ [][NextTranspose]_vars

\* C15: tree_transpose of a pytree whose structure is outer composed with
\* inner, zero-leaf treedefs included, has the structure inner composed with
\* outer, its leaf at (inner position j, outer position i) is the leaf at
\* (outer position i, inner position j) of the pytree, and inner_treedef=None
\* gives the same result as the inner treedef.
C15_Transpose ==
  (/\ op = "tree_transpose"
   /\ Len(rest) = 2
   /\ tree_structure(tree, "absent") = compose(OuterTreedef, InnerTreedefArg))
    => LET outer_size == num_leaves(OuterTreedef)
           inner_size == num_leaves(InnerTreedefArg)
       IN /\ ~out.raised
          /\ tree_structure(out.tree, "absent") =
               compose(InnerTreedefArg, OuterTreedef)
          /\ \A i \in 1..outer_size : \A j \in 1..inner_size :
               tree_leaves(out.tree, "absent")[(j - 1) * outer_size + i] =
                 tree_leaves(tree, "absent")[(i - 1) * inner_size + j]
          /\ tree_transpose(OuterTreedef, NoInner, tree) = out

\* C16: when the number of leaves of the pytree is not
\* num_leaves(outer_treedef) * num_leaves(inner_treedef), tree_transpose ends
\* with the mismatch error naming outer_treedef.compose(inner_treedef), and
\* returns no pytree.
C16_TransposeMismatch ==
  LET inferred == InnerTreedef(OuterTreedef, InnerTreedefArg, tree)
  IN (/\ op = "tree_transpose"
      /\ ~inferred.raised
      /\ num_leaves(tree_structure(tree, "absent")) #
           num_leaves(OuterTreedef) * num_leaves(inferred.treedef))
       => /\ out.raised
          /\ out.exc = "TypeError"
          /\ out.expected = compose(OuterTreedef, inferred.treedef)

\* A list of one pair was transposed as a list of two pairs: the mismatch
\* error named the list of two pairs.
C16_Witness ==
  /\ op = "tree_transpose"
  /\ Len(rest) = 2
  /\ OuterTreedef = Mk("list", 0, <<>>, <<LeafDef, LeafDef>>)
  /\ InnerTreedefArg = Mk("tuple", 0, <<>>, <<LeafDef, LeafDef>>)
  /\ tree.k = "list" /\ Len(tree.c) = 1 /\ tree.c[1].k = "tuple"
  /\ out.raised /\ out.exc = "TypeError"
  /\ out.expected =
       Mk("list", 0, <<>>, <<InnerTreedefArg, InnerTreedefArg>>)

\* C25: tree_transpose ends with its mismatch error exactly when the
\* structure of the pytree is not outer_treedef.compose(inner_treedef), the
\* inner treedef being the one given or, for None, the one inferred from
\* the first slot of the outer treedef.
C25_TransposeRejects ==
  LET inferred == InnerTreedef(OuterTreedef, InnerTreedefArg, tree)
  IN (op = "tree_transpose" /\ ~inferred.raised)
       => ((out.raised /\ out.exc = "TypeError")
             <=> tree_structure(tree, "absent") #
                   compose(OuterTreedef, inferred.treedef))

-----------------------------------------------------------------------------
\* tree_reduce.

\* initializer=no_initializer
no_initializer == Mk("no_initializer", 0, <<>>, <<>>)

\* The reduction function of the explored calls: function(acc, x) is the
\* application of f to the two.
function(acc, x) == f(<<acc, x>>)

\* functools.reduce(function, iterable[, initializer]): TypeError for an
\* empty iterable without initializer.
RECURSIVE ReduceFrom(_, _)
ReduceFrom(acc, xs) ==
  IF xs = <<>> THEN acc ELSE ReduceFrom(function(acc, Head(xs)), Tail(xs))

functools_reduce(iterable, initializer) ==
  IF initializer # no_initializer
    THEN [raised |-> FALSE, value |-> ReduceFrom(initializer, iterable)]
  ELSE IF iterable = <<>>
    THEN [raised |-> TRUE, value |-> NoneTree]
  ELSE [raised |-> FALSE,
        value |-> ReduceFrom(Head(iterable), Tail(iterable))]

\* tree_reduce folding the leaves from the right.
tree_reduce_from_right(x, initializer, pred) ==
  functools_reduce(Reverse(tree_leaves(x, pred)), initializer)

tree_reduce(x, initializer, pred) ==
  functools_reduce(tree_leaves(x, pred), initializer)

TreeReduce ==
  /\ op \in Ready
  /\ \E initializer \in {no_initializer, LeafOf(0)} :
       out' = [initializer |-> initializer,
               raised |-> tree_reduce(tree, initializer, is_leaf).raised,
               value |-> tree_reduce(tree, initializer, is_leaf).value]
  /\ op' = "tree_reduce"
  /\ UNCHANGED <<tree, rest, is_leaf, registries, dataclass>>

\* The left fold of function over the first n of the leaves, from init.
RECURSIVE LeftFold(_, _, _)
LeftFold(init, leaves, n) ==
  IF n = 0 THEN init
  ELSE function(LeftFold(init, leaves, n - 1), leaves[n])

\* C19: tree_reduce is the left fold of function over the leaves of
\* tree_leaves(tree, is_leaf), in flatten order, from the initializer when
\* one is given and from the first leaf otherwise; for a pytree without
\* leaves it returns the initializer, and raises when none is given.
C19_TreeReduce ==
  op = "tree_reduce" =>
    LET leaves == tree_leaves(tree, is_leaf)
    IN IF out.initializer # no_initializer
         THEN /\ ~out.raised
              /\ out.value = LeftFold(out.initializer, leaves, Len(leaves))
       ELSE IF leaves = <<>> THEN out.raised
       ELSE /\ ~out.raised
            /\ out.value = LeftFold(leaves[1], Tail(leaves), Len(leaves) - 1)

\* Two leaves were reduced from an initializer: function(function(i, a), b).
C19_Witness ==
  /\ op = "tree_reduce"
  /\ out.initializer = LeafOf(0)
  /\ Len(tree_leaves(tree, is_leaf)) = 2
  /\ ~out.raised
  /\ out.value = function(function(LeafOf(0), tree_leaves(tree, is_leaf)[1]),
                          tree_leaves(tree, is_leaf)[2])

TreedefIsLeaf ==
  /\ op \in Ready
  /\ op' = "treedef_is_leaf"
  /\ out' = [raised |-> FALSE,
             value |-> treedef_is_leaf(tree_structure(tree, is_leaf))]
  /\ UNCHANGED <<tree, rest, is_leaf, registries, dataclass>>

\* C22: treedef_is_leaf(tree_structure(t)) is True exactly when t is a
\* leaf, tree_leaves(t) == [t], and False for every container, also for one
\* without children.
C22_TreedefIsLeaf ==
  op = "treedef_is_leaf" =>
    (out.value <=> tree_leaves(tree, is_leaf) = <<tree>>)

FlattenOneLevel ==
  /\ op \in Ready
  /\ op' = "flatten_one_level"
  /\ out' = flatten_one_level(tree)
  /\ UNCHANGED <<tree, rest, is_leaf, registries, dataclass>>

\* C23: flatten_one_level raises ValueError exactly for a value whose type
\* is not a built-in or registered container, and otherwise returns the
\* children whose leaves, concatenated in order, are tree_leaves of the
\* value; tree_flatten returns a value of unregistered type as one leaf.
C23_UnrecognizedStructure ==
  /\ op = "flatten_one_level" =>
       /\ out.raised <=> tree.k \notin RegisteredTypes
       /\ ~out.raised =>
            ConcatAll([i \in 1..Len(out.children) |->
                         tree_leaves(out.children[i], "absent")])
              = tree_leaves(tree, "absent")
  /\ (op = "tree_flatten" /\ tree.k \notin RegisteredTypes) =>
       /\ ~out.raised
       /\ out.leaves = <<tree>>
       /\ out.treedef = LeafDef

\* flatten_one_level was called with a value of unregistered type.
C23_Witness ==
  /\ op = "flatten_one_level"
  /\ tree.k \notin RegisteredTypes
  /\ out.raised

\* Calls with one pytree.
Next ==
  \/ TreeFlatten \/ TreeUnflatten \/ GenerateKeyPaths \/ TreeReduce
  \/ TreedefIsLeaf \/ FlattenOneLevel

Spec == Init /\ [][Next]_vars

-----------------------------------------------------------------------------
\* Registration.

\* The five tables, as a record.
Tables ==
  [default_registry |-> default_registry,
   none_leaf_registry |-> none_leaf_registry,
   dispatch_registry |-> dispatch_registry,
   _registry |-> _registry,
   _registry_with_keypaths |-> _registry_with_keypaths,
   entry_fields |-> entry_fields]

Registered(tables, call_raised) ==
  [raised |-> call_raised, tables |-> tables]

\* PyTreeRegistry.register_node and register_dataclass_node: a type that has
\* an entry is rejected.
register_node(registry, nodetype, entry) ==
  IF registry[nodetype] # NoEntry
  THEN [raised |-> TRUE, registry |-> registry]
  ELSE [raised |-> FALSE, registry |-> [registry EXCEPT ![nodetype] = entry]]

\* register_pytree_node leaving dispatch_registry out.
register_pytree_node_two_registries(nodetype, entry) ==
  LET d == register_node(default_registry, nodetype, entry)
      n == register_node(none_leaf_registry, nodetype, entry)
  IN IF d.raised THEN Registered(Tables, TRUE)
     ELSE IF n.raised
       THEN Registered([Tables EXCEPT !.default_registry = d.registry], TRUE)
     ELSE Registered([Tables EXCEPT !.default_registry = d.registry,
                                    !.none_leaf_registry = n.registry,
                                    !._registry[nodetype] = entry], FALSE)

\* register_pytree_node: the entry holds flatten_func and unflatten_func.
register_pytree_node(nodetype, entry) ==
  LET d == register_node(default_registry, nodetype, entry)
      n == register_node(none_leaf_registry, nodetype, entry)
      p == register_node(dispatch_registry, nodetype, entry)
  IN IF d.raised THEN Registered(Tables, TRUE)
     ELSE IF n.raised
       THEN Registered([Tables EXCEPT !.default_registry = d.registry], TRUE)
     ELSE IF p.raised
       THEN Registered([Tables EXCEPT !.default_registry = d.registry,
                                      !.none_leaf_registry = n.registry],
                       TRUE)
     ELSE Registered([Tables EXCEPT !.default_registry = d.registry,
                                    !.none_leaf_registry = n.registry,
                                    !.dispatch_registry = p.registry,
                                    !._registry[nodetype] = entry], FALSE)

register_pytree_node_class(cls) ==
  register_pytree_node(cls, "register_pytree_node_class")

\* register_pytree_with_keys storing the key entry whether or not
\* register_pytree_node has raised.
register_pytree_with_keys_always(nodetype, entry) ==
  LET r == register_pytree_node(nodetype, entry)
  IN Registered([r.tables EXCEPT
                   !._registry_with_keypaths[nodetype] = entry], r.raised)

\* register_pytree_with_keys: register_pytree_node, and after it the entry of
\* _registry_with_keypaths.
register_pytree_with_keys(nodetype, entry) ==
  LET r == register_pytree_node(nodetype, entry)
  IN IF r.raised THEN r
     ELSE Registered([r.tables EXCEPT
                        !._registry_with_keypaths[nodetype] = entry], FALSE)

register_pytree_with_keys_class(cls) ==
  register_pytree_with_keys(cls, "register_pytree_with_keys_class")

\* register_dataclass(nodetype, data_fields, meta_fields): the entries hold
\* tuple(data_fields) and tuple(meta_fields), the registries lists of them.
register_dataclass(nodetype, data, meta) ==
  LET entry == "register_dataclass"
      d == register_node(default_registry, nodetype, entry)
      n == register_node(none_leaf_registry, nodetype, entry)
      p == register_node(dispatch_registry, nodetype, entry)
  IN IF d.raised THEN Registered(Tables, TRUE)
     ELSE IF n.raised
       THEN Registered([Tables EXCEPT !.default_registry = d.registry], TRUE)
     ELSE IF p.raised
       THEN Registered([Tables EXCEPT !.default_registry = d.registry,
                                      !.none_leaf_registry = n.registry],
                       TRUE)
     ELSE Registered([Tables EXCEPT
                        !.default_registry = d.registry,
                        !.none_leaf_registry = n.registry,
                        !.dispatch_registry = p.registry,
                        !._registry[nodetype] = entry,
                        !._registry_with_keypaths[nodetype] = entry,
                        !.entry_fields[nodetype] =
                           [data_fields |-> data, meta_fields |-> meta]],
                     FALSE)

register_static(cls) == register_pytree_with_keys(cls, "register_static")

\* The types of the explored registration calls: the classes of the caller,
\* a built-in type and a type tree_util registers itself.
Registrable == UserTypes \cup {"none", "odict"}

\* A registration call with the result r.
Registers(name, r) ==
  /\ op \in Ready
  /\ op' = name
  /\ out' = [raised |-> r.raised]
  /\ default_registry' = r.tables.default_registry
  /\ none_leaf_registry' = r.tables.none_leaf_registry
  /\ dispatch_registry' = r.tables.dispatch_registry
  /\ _registry' = r.tables._registry
  /\ _registry_with_keypaths' = r.tables._registry_with_keypaths
  /\ entry_fields' = r.tables.entry_fields
  /\ UNCHANGED <<tree, rest, is_leaf, data_fields, meta_fields>>

RegisterPytreeNode ==
  \E nodetype \in Registrable :
    Registers("register_pytree_node",
              register_pytree_node(nodetype, "register_pytree_node"))

RegisterPytreeNodeClass ==
  \E cls \in Registrable :
    Registers("register_pytree_node_class", register_pytree_node_class(cls))

RegisterPytreeWithKeys ==
  \E nodetype \in Registrable :
    Registers("register_pytree_with_keys",
              register_pytree_with_keys(nodetype, "register_pytree_with_keys"))

RegisterPytreeWithKeysClass ==
  \E cls \in Registrable :
    Registers("register_pytree_with_keys_class",
              register_pytree_with_keys_class(cls))

RegisterDataclass ==
  \E nodetype \in Registrable :
    Registers("register_dataclass",
              register_dataclass(nodetype, data_fields, meta_fields))

RegisterStatic ==
  \E cls \in Registrable :
    Registers("register_static", register_static(cls))

\* The pytrees of the calls that follow registrations: objects of the
\* caller's classes, alone and in a list, and a leaf.
RegistryTrees ==
  { Mk("A", 1, <<>>, <<>>), Mk("A", 2, <<>>, <<>>),
    Mk("B", 1, <<>>, <<LeafOf(11), LeafOf(12)>>),
    Mk("list", 0, <<>>, <<Mk("A", 1, <<>>, <<>>), LeafOf(12)>>),
    LeafOf(1) }

InitRegistry ==
  /\ InitRegistries
  /\ data_fields = <<>>
  /\ meta_fields = <<>>
  /\ tree \in RegistryTrees
  /\ rest \in {<<r>> : r \in RegistryTrees}
  /\ is_leaf = "absent"
  /\ op = "start"
  /\ out = NoResult

Registration ==
  \/ RegisterPytreeNode \/ RegisterPytreeNodeClass
  \/ RegisterPytreeWithKeys \/ RegisterPytreeWithKeysClass
  \/ RegisterDataclass \/ RegisterStatic

\* The further operations that read the registries.

TreeLeaves ==
  /\ op \in Ready
  /\ op' = "tree_leaves"
  /\ out' = [raised |-> FALSE, leaves |-> tree_leaves(tree, is_leaf)]
  /\ UNCHANGED <<tree, rest, is_leaf, registries, dataclass>>

TreeStructure ==
  /\ op \in Ready
  /\ op' = "tree_structure"
  /\ out' = [raised |-> FALSE, treedef |-> tree_structure(tree, is_leaf)]
  /\ UNCHANGED <<tree, rest, is_leaf, registries, dataclass>>

\* bool(x) of a leaf: a number is true unless it is 0, another object is.
Truthy(x) == x.k # "leaf" \/ x.v # 0

\* tree_all: all(tree_leaves(tree))
tree_all(x) ==
  \A i \in 1..Len(tree_leaves(x, "absent")) :
    Truthy(tree_leaves(x, "absent")[i])

TreeAll ==
  /\ op \in Ready
  /\ op' = "tree_all"
  /\ out' = [raised |-> FALSE, value |-> tree_all(tree)]
  /\ UNCHANGED <<tree, rest, is_leaf, registries, dataclass>>

\* tree_flatten_with_path: the key paths with their leaves, and the treedef.
tree_flatten_with_path(x, pred) ==
  [keypath_leaves |-> generate_key_paths(x, pred),
   treedef |-> tree_flatten(x, pred).treedef]

\* tree_map_with_path not passing is_leaf on to tree_flatten_with_path.
tree_map_with_path_no_is_leaf(x, rs, pred) ==
  LET flat == tree_flatten_with_path(x, "absent")
      n == Len(flat.keypath_leaves)
      keypath_leaves ==
        IF n = 0 THEN <<>>
        ELSE << [i \in 1..n |-> flat.keypath_leaves[i].path],
                [i \in 1..n |-> flat.keypath_leaves[i].leaf] >>
      ups == [j \in 1..Len(rs) |-> flatten_up_to(flat.treedef, rs[j])]
  IN IF \E j \in 1..Len(rs) : ups[j].raised
     THEN [raised |-> TRUE, calls |-> <<>>, tree |-> NoneTree]
     ELSE LET all_keypath_leaves ==
                keypath_leaves \o [j \in 1..Len(rs) |-> ups[j].leaves]
              calls == IF all_keypath_leaves = <<>> THEN <<>>
                       ELSE ZipAll(all_keypath_leaves)
              res == RegistryUnflatten(flat.treedef,
                       [i \in 1..Len(calls) |-> f(calls[i])])
          IN [raised |-> res.raised, calls |-> calls, tree |-> res.tree]

\* tree_map_with_path(f, tree, *rest, is_leaf=is_leaf); calls are the
\* argument tuples f was applied to, the key path first.
tree_map_with_path(x, rs, pred) ==
  LET flat == tree_flatten_with_path(x, pred)
      n == Len(flat.keypath_leaves)
      \* list(zip(*keypath_leaves)): no column at all without leaves
      keypath_leaves ==
        IF n = 0 THEN <<>>
        ELSE << [i \in 1..n |-> flat.keypath_leaves[i].path],
                [i \in 1..n |-> flat.keypath_leaves[i].leaf] >>
      ups == [j \in 1..Len(rs) |-> flatten_up_to(flat.treedef, rs[j])]
  IN IF \E j \in 1..Len(rs) : ups[j].raised
     THEN [raised |-> TRUE, calls |-> <<>>, tree |-> NoneTree]
     ELSE LET all_keypath_leaves ==
                keypath_leaves \o [j \in 1..Len(rs) |-> ups[j].leaves]
              calls == IF all_keypath_leaves = <<>> THEN <<>>
                       ELSE ZipAll(all_keypath_leaves)
              res == RegistryUnflatten(flat.treedef,
                       [i \in 1..Len(calls) |-> f(calls[i])])
          IN [raised |-> res.raised, calls |-> calls, tree |-> res.tree]

TreeMapWithPath ==
  /\ op \in Ready
  /\ op' = "tree_map_with_path"
  /\ out' = tree_map_with_path(tree, rest, is_leaf)
  /\ UNCHANGED <<tree, rest, is_leaf, registries, dataclass>>

\* The operations that traverse or compare pytrees.
Traversal ==
  \/ TreeFlatten \/ TreeUnflatten \/ TreeLeaves \/ TreeStructure
  \/ TreeMap \/ TreeMapWithPath \/ TreeReduce \/ TreeAll \/ TreeTranspose
  \/ GenerateKeyPaths \/ FlattenOneLevel \/ EqualityErrors \/ PrefixErrors

TraversalOps ==
  {"tree_flatten", "tree_unflatten", "tree_leaves", "tree_structure",
   "tree_map", "tree_map_with_path", "tree_reduce", "tree_all",
   "tree_transpose", "generate_key_paths", "flatten_one_level",
   "equality_errors", "prefix_errors"}

\* Registrations, in any number and order, and then a call of one of the
\* operations.
NextRegistry == Registration \/ Traversal

SpecRegistry == InitRegistry /\ [][NextRegistry]_vars

C18_TraversalReadsOnly ==
  [][/\ op' \in TraversalOps => registries' = registries
     /\ \A t \in AllTypes :
          /\ default_registry[t] # NoEntry
               => default_registry'[t] = default_registry[t]
          /\ none_leaf_registry[t] # NoEntry
               => none_leaf_registry'[t] = none_leaf_registry[t]
          /\ dispatch_registry[t] # NoEntry
               => dispatch_registry'[t] = dispatch_registry[t]
          /\ _registry[t] # NoEntry => _registry'[t] = _registry[t]
          /\ _registry_with_keypaths[t] # NoEntry
               => _registry_with_keypaths'[t] = _registry_with_keypaths[t]
    ]_vars

\* Key paths were generated, and tree_map failed, for an object of a class
\* registered before.
C18_Witness ==
  /\ op \in {"generate_key_paths", "tree_map"}
  /\ tree.k = "B"
  /\ default_registry["B"] = "register_pytree_with_keys"
  /\ op = "tree_map" => out.raised

\* C27: re-registration. A registration call that is rejected leaves
\* _registry and _registry_with_keypaths, with what their entries hold, as
\* they were, and the key entry of a class of the caller always comes from
\* the registration its plain entry comes from.
C27_ReRegistration ==
  [][/\ (op' \in RegistrationOps /\ out'.raised) =>
          /\ _registry' = _registry
          /\ _registry_with_keypaths' = _registry_with_keypaths
          /\ entry_fields' = entry_fields
     /\ \A t \in UserTypes :
          _registry_with_keypaths'[t] # NoEntry
            => _registry_with_keypaths'[t] = _registry'[t]
    ]_vars

\* A class registered with keys was registered a second time, by
\* register_static, and the call was rejected.
C27_Witness ==
  /\ op = "register_static"
  /\ out.raised
  /\ default_registry["B"] = NoEntry
  /\ _registry["A"] = "register_pytree_with_keys"
  /\ _registry_with_keypaths["A"] = "register_pytree_with_keys"

\* C20: register_static. After register_static(cls) an instance x of cls
\* flattens to no leaves and a node with x itself as its data,
\* tree_unflatten(tree_structure(x), []) returns x, generate_key_paths(x) is
\* empty, and two instances have equal treedefs iff they are equal.
IsStatic(x) == x.k \in UserTypes /\ default_registry[x.k] = "register_static"

C20_RegisterStatic ==
  IsStatic(tree) =>
    /\ tree_flatten(tree, "absent").leaves = <<>>
    /\ tree_structure(tree, "absent") = Mk(tree.k, tree, <<>>, <<>>)
    /\ tree_unflatten(tree_structure(tree, "absent"), <<>>)
         = [raised |-> FALSE, tree |-> tree]
    /\ generate_key_paths(tree, "absent") = <<>>
    /\ IsStatic(rest[1]) =>
         ((tree_structure(tree, "absent") = tree_structure(rest[1], "absent"))
            <=> tree = rest[1])

\* register_static has registered a class of which there are two unequal
\* instances.
C20_Witness ==
  /\ op = "register_static"
  /\ ~out.raised
  /\ IsStatic(tree) /\ IsStatic(rest[1])
  /\ tree.k = rest[1].k
  /\ tree # rest[1]

-----------------------------------------------------------------------------
\* register_dataclass: the field lists of the caller and the objects of a
\* registered class.

\* The attributes of the objects of the caller's classes.
FieldNames == <<"p", "q", "r">>

\* The field lists of a caller: up to two names, also one name twice.
FieldLists ==
  {<<>>} \cup {<<a>> : a \in Range(FieldNames)}
         \cup {<<a, b>> : a \in Range(FieldNames), b \in Range(FieldNames)}

\* Objects with the attributes p, q and r: the values are leaves, and a
\* tuple, a leaf and None.
DataclassInstances ==
  {Mk(cls, 0, FieldNames, <<LeafOf(1), LeafOf(2), LeafOf(3)>>) :
     cls \in UserTypes}
  \cup {Mk("A", 0, FieldNames,
           <<Mk("tuple", 0, <<>>, <<LeafOf(1), LeafOf(2)>>), LeafOf(3),
             NoneTree>>)}

InitDataclass ==
  /\ InitRegistries
  /\ data_fields \in FieldLists
  /\ meta_fields \in FieldLists
  /\ tree \in DataclassInstances
  /\ rest = <<>>
  /\ is_leaf = "absent"
  /\ op = "start"
  /\ out = NoResult

\* The caller changes its lists after the registration: data_fields.clear()
\* and meta_fields.reverse().
MutateFields ==
  /\ op = "register_dataclass"
  /\ data_fields' = <<>>
  /\ meta_fields' = Reverse(meta_fields)
  /\ UNCHANGED <<tree, rest, is_leaf, op, out, registries, entry_fields>>

NextDataclass ==
  \/ RegisterDataclass \/ MutateFields
  \/ TreeFlatten \/ TreeUnflatten \/ GenerateKeyPaths \/ FlattenOneLevel

SpecDataclass == InitDataclass /\ [][NextDataclass]_vars

IsDataclass(x) ==
  x.k \in UserTypes /\ default_registry[x.k] = "register_dataclass"

\* C21: register_dataclass. An object of a class registered with the lists
\* data_fields and meta_fields decomposes into the values of the data fields
\* in the order of data_fields, each under GetAttrKey(field name), and the
\* tuple of the values of the meta fields in the order of meta_fields;
\* recomposing gives an object whose listed fields have their values; what
\* the caller does to its lists afterwards changes nothing.
C21_RegisterDataclass ==
  IsDataclass(tree) =>
    LET data == entry_fields[tree.k].data_fields
        meta == entry_fields[tree.k].meta_fields
        children == [i \in 1..Len(data) |-> getattr(tree, data[i])]
        metadata == [i \in 1..Len(meta) |-> getattr(tree, meta[i])]
        back == tree_unflatten(tree_structure(tree, "absent"),
                               tree_leaves(tree, "absent"))
    IN /\ flatten_one_level(tree) =
            [raised |-> FALSE, children |-> children,
             meta |-> <<metadata, <<>> >>]
       /\ tree_leaves(tree, "absent") =
            ConcatAll([i \in 1..Len(data) |->
                         tree_leaves(children[i], "absent")])
       /\ tree_structure(tree, "absent").v = metadata
       /\ flatten_with_keys(tree) =
            [i \in 1..Len(data) |-> <<GetAttrKey(data[i]), children[i]>>]
       /\ generate_key_paths(tree, "absent") =
            ConcatAll([i \in 1..Len(data) |->
              _generate_key_paths_(<<GetAttrKey(data[i])>>, children[i],
                                   "absent")])
       /\ ~back.raised
       /\ back.tree.k = tree.k
       /\ \A name \in Range(data) \cup Range(meta) :
            getattr(back.tree, name) = getattr(tree, name)

\* An object of a class registered with two data fields and two meta fields
\* was flattened after the caller had changed its lists.
C21_Witness ==
  /\ op = "tree_flatten"
  /\ IsDataclass(tree)
  /\ Len(entry_fields[tree.k].data_fields) = 2
  /\ Len(entry_fields[tree.k].meta_fields) = 2
  /\ entry_fields[tree.k].data_fields[1] # entry_fields[tree.k].data_fields[2]
  /\ entry_fields[tree.k].meta_fields[1] # entry_fields[tree.k].meta_fields[2]
  /\ data_fields # entry_fields[tree.k].data_fields
  /\ meta_fields # entry_fields[tree.k].meta_fields
  /\ tree.c[1].k = "tuple"

-----------------------------------------------------------------------------
\* tree_map_with_path against tree_map.

NextMapWithPath == TreeMapWithPath

SpecMapWithPath == InitMap /\ [][NextMapWithPath]_vars

\* C28: tree_map_with_path refines tree_map. It fails exactly when tree_map
\* fails; otherwise it calls f once for each leaf of tree, in the order of
\* the leaves, with the key path generate_key_paths gives the leaf, the leaf
\* and the subtrees of the rest trees that tree_map passes, and returns the
\* values of f in the treedef of tree: with an f that drops the key path,
\* what tree_map returns.
C28_MapWithPathRefinesMap ==
  op = "tree_map_with_path" =>
    LET mapped == tree_map(tree, rest, is_leaf)
        paths == generate_key_paths(tree, is_leaf)
        leaves == tree_leaves(tree, is_leaf)
    IN /\ out.raised <=> mapped.raised
       /\ ~out.raised =>
            /\ Len(out.calls) = Len(leaves)
            /\ Len(paths) = Len(leaves)
            /\ \A i \in 1..Len(leaves) :
                 /\ paths[i].leaf = leaves[i]
                 /\ out.calls[i] = <<paths[i].path>> \o mapped.calls[i]
            /\ out.tree =
                 tree_unflatten(tree_structure(tree, is_leaf),
                                [i \in 1..Len(leaves) |-> f(out.calls[i])]).tree
            /\ tree_unflatten(tree_structure(tree, is_leaf),
                              [i \in 1..Len(leaves) |->
                                 f(Tail(out.calls[i]))]).tree
                 = mapped.tree

\* tree_map_with_path was called with a rest tree and an is_leaf that makes
\* a node of tree a leaf, and called f for a leaf below the root.
C28_Witness ==
  /\ op = "tree_map_with_path"
  /\ ~out.raised
  /\ is_leaf # "absent"
  /\ Len(rest) = 1
  /\ Len(out.calls) >= 1
  /\ out.calls[1][1] # <<>>
  /\ \E i \in 1..Len(out.calls) : out.calls[i][2].k # "leaf"

====
